---- MODULE Spec2Model ----
(***************************************************************************)
(* git-fzf: the option resolver (getFzfOption), the preview template       *)
(* renderer (commandFromTemplate), the three adapters (diff, log, stash)   *)
(* and the result extractor (writeFzfResult).                              *)
(*                                                                         *)
(* A Go string is a sequence of one-character strings, so that os.Expand,  *)
(* strings.Fields, strings.TrimSpace and the template scanner work on the  *)
(* characters as the Go code does.  The empty string is <<>>.              *)
(***************************************************************************)
EXTENDS Integers, Sequences, FiniteSets, TLC

VARIABLES env, pc, adapter, args, build, cli, newErr, exec, ioOut, ioErr, ret, opt,
          render

vars == <<env, pc, adapter, args, build, cli, newErr, exec, ioOut, ioErr, ret, opt,
          render>>

(***************************************************************************)
(* Bounds of the model.                                                    *)
(***************************************************************************)
\* the longest option template, in fragments, that GIT_FZF_FZF_OPTION holds
MaxParts == 3
\* the longest finder output, in fragments, that the executor returns
MaxOutParts == 5

(***************************************************************************)
(* String helpers.                                                         *)
(***************************************************************************)
Min(S) == CHOOSE x \in S : \A y \in S : x <= y

RECURSIVE Flatten(_)
Flatten(ss) == IF ss = <<>> THEN <<>> ELSE Head(ss) \o Flatten(Tail(ss))

\* strings.Join(elems, sep)
RECURSIVE Join(_, _)
Join(elems, sep) ==
    IF elems = <<>> THEN <<>>
    ELSE IF Len(elems) = 1 THEN elems[1]
    ELSE elems[1] \o sep \o Join(Tail(elems), sep)


HasPrefix(s, p) == Len(s) >= Len(p) /\ SubSeq(s, 1, Len(p)) = p

HasSuffix(s, p) == Len(s) >= Len(p) /\ SubSeq(s, Len(s) - Len(p) + 1, Len(s)) = p

(***************************************************************************)
(* Go errors: a message, and the error wrapped with %w (<<>> when none).   *)
(* kind and code carry the dynamic type and ExitError.ExitCode().  *)
(***************************************************************************)
NilErr == [kind |-> "nil", code |-> 0, msg |-> <<>>, cause |-> <<>>]

\* errors.New(msg), and any error that is no exec.ExitError
PlainError(msg) == [kind |-> "error", code |-> 0, msg |-> msg, cause |-> <<>>]

\* &exec.ExitError{...} of a process that exited with this code
ExitError(code, msg) == [kind |-> "ExitError", code |-> code, msg |-> msg, cause |-> <<>>]

\* fmt.Errorf(prefix + "%w", err)
Wrap(prefix, err) == [kind |-> "error", code |-> 0, msg |-> prefix \o err.msg, cause |-> <<err>>]

\* errors.Is(err, target)
RECURSIVE ErrorsIs(_, _)
ErrorsIs(err, target) ==
    \/ err = target
    \/ /\ err.cause # <<>>
       /\ ErrorsIs(err.cause[1], target)

(***************************************************************************)
(* Constants of internal/command/fzf.go.                                   *)
(***************************************************************************)
\* "GIT_FZF_FZF_OPTION"
envNameFzfOption == <<"G","I","T","_","F","Z","F","_","F","Z","F","_","O","P","T","I","O","N">>

\* "GIT_FZF_FZF_BIND_OPTION"
envNameFzfBindOption == <<"G","I","T","_","F","Z","F","_","F","Z","F","_","B","I","N","D","_","O","P","T","I","O","N">>

\* "GIT_FZF_FZF_PREVIEW_OPTION", the key of the options map for the preview command
previewOptionName == <<"G","I","T","_","F","Z","F","_","F","Z","F","_","P","R","E","V","I","E","W","_","O","P","T","I","O","N">>

\* "ctrl-k:kill-line,ctrl-alt-t:toggle-preview,ctrl-alt-n:preview-down,ctrl-alt-p:preview-up,ctrl-alt-v:preview-page-down"
defaultFzfBindOption == <<"c","t","r","l","-","k",":","k","i","l","l","-","l","i","n","e",",","c","t","r","l","-","a","l","t","-","t",":","t","o","g","g","l","e","-","p","r","e","v","i","e","w",",","c","t","r","l","-","a","l","t","-","n",":","p","r","e","v","i","e","w","-","d","o","w","n",",","c","t","r","l","-","a","l","t","-","p",":","p","r","e","v","i","e","w","-","u","p",",","c","t","r","l","-","a","l","t","-","v",":","p","r","e","v","i","e","w","-","p","a","g","e","-","d","o","w","n">>

\* "--multi --ansi --inline-info --layout reverse --preview '$GIT_FZF_FZF_PREVIEW_OPTION' --preview-window down:70% --bind $GIT_FZF_FZF_BIND_OPTION"
defaultFzfOption == <<"-","-","m","u","l","t","i"," ","-","-","a","n","s","i"," ","-","-","i","n","l","i","n","e","-","i","n","f","o"," ","-","-","l","a","y","o","u","t"," ","r","e","v","e","r","s","e"," ","-","-","p","r","e","v","i","e","w"," ","'","$","G","I","T","_","F","Z","F","_","F","Z","F","_","P","R","E","V","I","E","W","_","O","P","T","I","O","N","'"," ","-","-","p","r","e","v","i","e","w","-","w","i","n","d","o","w"," ","d","o","w","n",":","7","0","%"," ","-","-","b","i","n","d"," ","$","G","I","T","_","F","Z","F","_","F","Z","F","_","B","I","N","D","_","O","P","T","I","O","N">>

(***************************************************************************)
(* The environment: a function from variable names to values.              *)
(***************************************************************************)
\* os.Getenv(name): an absent variable reads as the empty string
Getenv(e, name) == IF name \in DOMAIN e THEN e[name] ELSE <<>>

(***************************************************************************)
(* os.Expand, as getFzfOption calls it (fzf.go:59-67).                     *)
(***************************************************************************)
isShellSpecialVar(c) ==
    c \in {"*", "#", "$", "@", "!", "?", "-", "0", "1", "2", "3", "4", "5", "6", "7", "8", "9"}

isAlphaNum(c) ==
    c \in {"_", "0", "1", "2", "3", "4", "5", "6", "7", "8", "9",
           "a", "b", "c", "d", "e", "f", "g", "h", "i", "j", "k", "l", "m",
           "n", "o", "p", "q", "r", "s", "t", "u", "v", "w", "x", "y", "z",
           "A", "B", "C", "D", "E", "F", "G", "H", "I", "J", "K", "L", "M",
           "N", "O", "P", "Q", "R", "S", "T", "U", "V", "W", "X", "Y", "Z"}

\* getShellName(s): the name that starts s (the text after a $) and the
\* number of characters it takes; s is not empty
getShellName(s) ==
    IF s[1] = "{"
    THEN IF Len(s) > 2 /\ isShellSpecialVar(s[2]) /\ s[3] = "}"
         THEN [name |-> SubSeq(s, 2, 2), w |-> 3]
         ELSE LET closes == {i \in 2..Len(s) : s[i] = "}"}
              IN  IF closes = {} THEN [name |-> <<>>, w |-> 1]
                  ELSE IF Min(closes) = 2 THEN [name |-> <<>>, w |-> 2]
                  ELSE [name |-> SubSeq(s, 2, Min(closes) - 1), w |-> Min(closes)]
    ELSE IF isShellSpecialVar(s[1])
    THEN [name |-> SubSeq(s, 1, 1), w |-> 1]
    ELSE LET stops == {i \in 1..Len(s) : ~isAlphaNum(s[i])}
             n == IF stops = {} THEN Len(s) ELSE Min(stops) - 1
         IN  [name |-> SubSeq(s, 1, n), w |-> n]

\* a closure in which the last non-empty candidate wins
mappingLastCandidate(options, envName) ==
    LET cands == IF envName \in DOMAIN options THEN options[envName] ELSE <<>>
        found == {k \in 1..Len(cands) : cands[k] # <<>>}
    IN  IF found # {}
        THEN [value |-> cands[CHOOSE k \in found : \A l \in found : l <= k], invalid |-> <<>>]
        ELSE [value |-> <<>>, invalid |-> <<envName>>]

\* the closure handed to os.Expand (fzf.go:59-67): the first non-empty
\* candidate of options[envName]; without one the name is appended to
\* invalidEnvVars and the empty string is substituted
mapping(options, envName) ==
    LET cands == IF envName \in DOMAIN options THEN options[envName] ELSE <<>>
        found == {k \in 1..Len(cands) : cands[k] # <<>>}
    IN  IF found # {}
        THEN [value |-> cands[Min(found)], invalid |-> <<>>]
        ELSE [value |-> <<>>, invalid |-> <<envName>>]

\* the loop of os.Expand from position j on; i is the start of the text not
\* yet copied, acc the buffer, the invalidEnvVars collected so far and the
\* calls of the closure made so far (name and value substituted).  The loop
\* passes over every character that is no $ followed by another character,
\* so the next step is at the first such $ at or after j.
RECURSIVE ExpandLoop(_, _, _, _, _)
ExpandLoop(s, options, j, i, acc) ==
    LET dollars == {k \in j..(Len(s) - 1) : s[k] = "$"}
    IN  IF dollars = {}
        THEN [out |-> acc.buf \o SubSeq(s, i, Len(s)), invalid |-> acc.invalid, subs |-> acc.subs]
        ELSE LET d == Min(dollars)
                 r == getShellName(SubSeq(s, d + 1, Len(s)))
                 pre == acc.buf \o SubSeq(s, i, d - 1)
                 m == mapping(options, r.name)
                 acc2 == IF r.name = <<>> /\ r.w > 0
                         THEN [acc EXCEPT !.buf = pre]
                         ELSE IF r.name = <<>>
                         THEN [acc EXCEPT !.buf = Append(pre, "$")]
                         ELSE [buf |-> pre \o m.value,
                               invalid |-> acc.invalid \o m.invalid,
                               subs |-> Append(acc.subs, [name |-> r.name, value |-> m.value])]
             IN  ExpandLoop(s, options, d + r.w + 1, d + r.w + 1, acc2)

\* an expansion that expands its own result once more
ExpandRescan(s, options) ==
    LET first == ExpandLoop(s, options, 1, 1, [buf |-> <<>>, invalid |-> <<>>, subs |-> <<>>])
    IN  ExpandLoop(first.out, options, 1, 1,
                   [buf |-> <<>>, invalid |-> first.invalid, subs |-> first.subs])

Expand(s, options) ==
    ExpandLoop(s, options, 1, 1, [buf |-> <<>>, invalid |-> <<>>, subs |-> <<>>])

(***************************************************************************)
(* getFzfOption (fzf.go:43-72).  The result carries, besides the two       *)
(* values returned, the template chosen and the substitutions made.        *)
(***************************************************************************)
\* a resolver that always starts from the built-in default
fzfOptionTemplateIgnoresEnv(e) == defaultFzfOption

\* fzf.go:44-47: the option template
fzfOptionTemplate(e) ==
    IF Getenv(e, envNameFzfOption) = <<>>
    THEN defaultFzfOption
    ELSE Getenv(e, envNameFzfOption)

\* a resolver without the built-in bind option as a fallback
fzfOptionsNoBindDefault(e, previewCommand) ==
    (previewOptionName :> <<previewCommand>>)
    @@ (envNameFzfBindOption :> <<Getenv(e, envNameFzfBindOption)>>)

\* a resolver that lets the environment override the preview command
fzfOptionsPreviewFromEnv(e, previewCommand) ==
    (previewOptionName :> <<Getenv(e, previewOptionName), previewCommand>>)
    @@ (envNameFzfBindOption :> <<Getenv(e, envNameFzfBindOption), defaultFzfBindOption>>)

\* fzf.go:49-57: the candidates of each variable, in priority order
fzfOptions(e, previewCommand) ==
    (previewOptionName :> <<previewCommand>>)
    @@ (envNameFzfBindOption :> <<Getenv(e, envNameFzfBindOption), defaultFzfBindOption>>)

\* a resolver that reports the first unresolved variable only
getFzfOptionFirstInvalid(e, previewCommand) ==
    LET fzfOption == fzfOptionTemplate(e)
        x == Expand(fzfOption, fzfOptions(e, previewCommand))
    IN  IF Len(x.invalid) # 0
        THEN [fzfOption |-> <<>>,
              err |-> PlainError(envNameFzfOption \o <<" ","h","a","s"," ","i","n","v","a","l","i","d"," ","e","n","v","i","r","o","n","m","e","n","t"," ","v","a","r","i","a","b","l","e","s",":"," ">>
                                 \o x.invalid[1]),
              template |-> fzfOption, subs |-> x.subs]
        ELSE [fzfOption |-> x.out, err |-> NilErr, template |-> fzfOption, subs |-> x.subs]

getFzfOption(e, previewCommand) ==
    LET fzfOption == fzfOptionTemplate(e)
        x == Expand(fzfOption, fzfOptions(e, previewCommand))
    IN  IF Len(x.invalid) # 0
        THEN [fzfOption |-> <<>>,
              err |-> PlainError(envNameFzfOption \o <<" ","h","a","s"," ","i","n","v","a","l","i","d"," ","e","n","v","i","r","o","n","m","e","n","t"," ","v","a","r","i","a","b","l","e","s",":"," ">>
                                 \o Join(x.invalid, <<",">>)),
              template |-> fzfOption, subs |-> x.subs]
        ELSE [fzfOption |-> x.out, err |-> NilErr, template |-> fzfOption, subs |-> x.subs]

(***************************************************************************)
(* commandFromTemplate (fzf.go:31-42): html/template with missingkey=error.*)
(* The model covers templates whose actions are field references           *)
(* {{.name}} in HTML text context, which is what the adapters use.         *)
(***************************************************************************)
\* the escaping html/template applies to a value in text context
htmlEscapeChar(c) ==
    CASE c = "\"" -> <<"&","#","3","4",";">>
      [] c = "&" -> <<"&","a","m","p",";">>
      [] c = "'" -> <<"&","#","3","9",";">>
      [] c = "+" -> <<"&","#","4","3",";">>
      [] c = "<" -> <<"&","l","t",";">>
      [] c = ">" -> <<"&","g","t",";">>
      [] OTHER -> <<c>>

htmlEscape(v) == Flatten([k \in 1..Len(v) |-> htmlEscapeChar(v[k])])

\* the text of an action without the spaces around it
RECURSIVE TrimBlanks(_)
TrimBlanks(s) ==
    IF s = <<>> THEN s
    ELSE IF Head(s) = " " THEN TrimBlanks(Tail(s))
    ELSE IF s[Len(s)] = " " THEN TrimBlanks(SubSeq(s, 1, Len(s) - 1))
    ELSE s

\* .name with name an identifier
isField(body) ==
    /\ Len(body) >= 2
    /\ body[1] = "."
    /\ \A k \in 2..Len(body) : isAlphaNum(body[k])
    /\ ~isShellSpecialVar(body[2])

\* template.Parse: the text and field nodes of the template, or an error
RECURSIVE parseNodes(_, _, _)
parseNodes(command, pos, nodes) ==
    LET opens == {k \in pos..(Len(command) - 1) : command[k] = "{" /\ command[k + 1] = "{"}
    IN  IF opens = {}
        THEN [ok |-> TRUE, nodes |-> Append(nodes, [kind |-> "text", val |-> SubSeq(command, pos, Len(command))])]
        ELSE LET o == Min(opens)
                 closes == {k \in (o + 2)..(Len(command) - 1) : command[k] = "}" /\ command[k + 1] = "}"}
             IN  IF closes = {}
                 THEN [ok |-> FALSE, nodes |-> <<>>]
                 ELSE LET c == Min(closes)
                          body == TrimBlanks(SubSeq(command, o + 2, c - 1))
                      IN  IF ~isField(body)
                          THEN [ok |-> FALSE, nodes |-> <<>>]
                          ELSE parseNodes(command, c + 2,
                                   nodes \o << [kind |-> "text", val |-> SubSeq(command, pos, o - 1)],
                                               [kind |-> "field", val |-> Tail(body)] >>)

\* tmpl.Execute: the nodes written to the builder in order; a field absent
\* from data ends the execution with an error
RECURSIVE executeNodes(_, _, _)
executeNodes(nodes, data, builder) ==
    IF nodes = <<>> THEN [ok |-> TRUE, builder |-> builder, key |-> <<>>]
    ELSE LET n == Head(nodes)
         IN  IF n.kind = "text"
             THEN executeNodes(Tail(nodes), data, builder \o n.val)
             ELSE IF n.val \notin DOMAIN data
             THEN [ok |-> FALSE, builder |-> builder, key |-> n.val]
             ELSE executeNodes(Tail(nodes), data, builder \o htmlEscape(data[n.val]))

\* a renderer that returns what it has written so far when the execution fails
commandFromTemplatePartial(name, command, data) ==
    LET tmpl == parseNodes(command, 1, <<>>)
        x == executeNodes(tmpl.nodes, data, <<>>)
    IN  IF ~tmpl.ok
        THEN [out |-> <<>>,
              err |-> Wrap(<<"f","a","i","l","e","d"," ","t","o"," ","p","a","r","s","e"," ","t","h","e"," ","c","o","m","m","a","n","d",":"," ">>,
                           PlainError(<<"t","e","m","p","l","a","t","e",":"," ">> \o name \o <<":"," ","b","a","d"," ","a","c","t","i","o","n">>))]
        ELSE IF ~x.ok
        THEN [out |-> x.builder,
              err |-> Wrap(<<"f","a","i","l","e","d"," ","t","o"," ","s","e","t"," ","d","a","t","a"," ","o","n"," ","t","h","e"," ","t","e","m","p","l","a","t","e"," ","o","f"," ","c","o","m","m","a","n","d",":"," ">>,
                           PlainError(<<"t","e","m","p","l","a","t","e",":"," ">> \o name \o <<":"," ","m","a","p"," ","h","a","s"," ","n","o"," ","e","n","t","r","y"," ","f","o","r"," ","k","e","y"," ">> \o x.key))]
        ELSE [out |-> x.builder, err |-> NilErr]

commandFromTemplate(name, command, data) ==
    LET tmpl == parseNodes(command, 1, <<>>)
        x == executeNodes(tmpl.nodes, data, <<>>)
    IN  IF ~tmpl.ok
        THEN [out |-> <<>>,
              err |-> Wrap(<<"f","a","i","l","e","d"," ","t","o"," ","p","a","r","s","e"," ","t","h","e"," ","c","o","m","m","a","n","d",":"," ">>,
                           PlainError(<<"t","e","m","p","l","a","t","e",":"," ">> \o name \o <<":"," ","b","a","d"," ","a","c","t","i","o","n">>))]
        ELSE IF ~x.ok
        THEN [out |-> <<>>,
              err |-> Wrap(<<"f","a","i","l","e","d"," ","t","o"," ","s","e","t"," ","d","a","t","a"," ","o","n"," ","t","h","e"," ","t","e","m","p","l","a","t","e"," ","o","f"," ","c","o","m","m","a","n","d",":"," ">>,
                           PlainError(<<"t","e","m","p","l","a","t","e",":"," ">> \o name \o <<":"," ","m","a","p"," ","h","a","s"," ","n","o"," ","e","n","t","r","y"," ","f","o","r"," ","k","e","y"," ">> \o x.key))]
        ELSE [out |-> x.builder, err |-> NilErr]

(***************************************************************************)
(* writeFzfResult (fzf.go:74-88).                                          *)
(***************************************************************************)
\* unicode.IsSpace, on the characters of the model
isSpace(c) == c \in {" ", "\t", "\n", "\r", "\f"}

\* strings.TrimSpace
RECURSIVE TrimSpace(_)
TrimSpace(s) ==
    IF s = <<>> THEN s
    ELSE IF isSpace(Head(s)) THEN TrimSpace(Tail(s))
    ELSE IF isSpace(s[Len(s)]) THEN TrimSpace(SubSeq(s, 1, Len(s) - 1))
    ELSE s

\* strings.Split(s, "\n"): at least one element, empty ones kept
RECURSIVE SplitLines(_)
SplitLines(s) ==
    LET nl == {k \in 1..Len(s) : s[k] = "\n"}
    IN  IF nl = {} THEN <<s>>
        ELSE <<SubSeq(s, 1, Min(nl) - 1)>> \o SplitLines(SubSeq(s, Min(nl) + 1, Len(s)))

\* strings.Fields: the maximal runs of characters that are not white space
RECURSIVE Fields(_)
Fields(line) ==
    LET starts == {k \in 1..Len(line) : ~isSpace(line[k])}
    IN  IF starts = {} THEN <<>>
        ELSE LET b == Min(starts)
                 ends == {k \in b..Len(line) : isSpace(line[k])}
                 e == IF ends = {} THEN Len(line) + 1 ELSE Min(ends)
             IN  <<SubSeq(line, b, e - 1)>> \o Fields(SubSeq(line, e, Len(line)))

\* the bytes handed to ioOut.Write and the error returned, wErr being what
\* Write returns; fields[column] of a line with too few fields panics with
\* an index out of range, before anything is written
writeFzfResult(out, column, wErr) ==
    LET lines == SplitLines(TrimSpace(out))
        fields == [i \in 1..Len(lines) |-> Fields(lines[i])]
    IN  IF \E i \in 1..Len(lines) : Len(fields[i]) <= column
        THEN [panicked |-> TRUE, writes |-> <<>>, err |-> NilErr]
        ELSE LET filePaths == [i \in 1..Len(lines) |-> TrimSpace(fields[i][column + 1])]
                 buf == Join(filePaths, <<"\n">>) \o <<"\n">>
             IN  [panicked |-> FALSE,
                  writes |-> <<buf>>,
                  err |-> IF wErr # NilErr
                          THEN Wrap(<<"f","a","i","l","e","d"," ","t","o"," ","o","u","t","p","u","t"," ","t","h","e"," ","r","e","s","u","l","t",":"," ">>, wErr)
                          ELSE NilErr]

(***************************************************************************)
(* The diff adapter (package command, cmd/git-fzf/main.go:27-119).         *)
(***************************************************************************)
\* "git diff --color {{.objectRange}} {{.path}}"
diffFzfPreviewCommand == <<"g","i","t"," ","d","i","f","f"," ","-","-","c","o","l","o","r"," ","{","{",".","o","b","j","e","c","t","R","a","n","g","e","}","}"," ","{","{",".","p","a","t","h","}","}">>

\* a constructor returns the cli (isNil when it returns nil), the error, and
\* for the record its locals previewCommand and fzfOption as getFzfOption
\* returned it
NilCli == [isNil |-> TRUE, listOptions |-> <<>>, fzfOption |-> <<>>]

\* a constructor that appends the query flag whether or not there is a query
newDiffCliAlwaysQuery(e, gitOptions, fzfQuery) ==
    LET gitObjectRange == IF Len(gitOptions) > 0 THEN gitOptions[1] ELSE <<>>
        t == commandFromTemplate(<<"p","r","e","v","i","e","w">>, diffFzfPreviewCommand,
                 (<<"p","a","t","h">> :> <<"{","{","2","}","}">>) @@ (<<"o","b","j","e","c","t","R","a","n","g","e">> :> gitObjectRange))
        o == getFzfOption(e, t.out)
    IN  IF t.err # NilErr
        THEN [cli |-> NilCli, err |-> Wrap(<<"i","n","v","a","l","i","d"," ","f","z","f"," ","p","r","e","v","i","e","w"," ","c","o","m","m","a","n","d",":"," ">>, t.err),
              previewCommand |-> <<>>, resolved |-> <<>>]
        ELSE IF o.err # NilErr
        THEN [cli |-> NilCli, err |-> Wrap(<<"f","a","i","l","e","d"," ","t","o"," ","g","e","t"," ","f","z","f"," ","o","p","t","i","o","n",":"," ">>, o.err),
              previewCommand |-> t.out, resolved |-> <<>>]
        ELSE [cli |-> [isNil |-> FALSE,
                       listOptions |-> gitOptions,
                       fzfOption |-> o.fzfOption \o <<" ","-","-","q","u","e","r","y"," ">> \o fzfQuery],
              err |-> NilErr, previewCommand |-> t.out, resolved |-> o.fzfOption]

newDiffCli(e, gitOptions, fzfQuery) ==
    LET gitObjectRange == IF Len(gitOptions) > 0 THEN gitOptions[1] ELSE <<>>
        t == commandFromTemplate(<<"p","r","e","v","i","e","w">>, diffFzfPreviewCommand,
                 (<<"p","a","t","h">> :> <<"{","{","2","}","}">>) @@ (<<"o","b","j","e","c","t","R","a","n","g","e">> :> gitObjectRange))
        o == getFzfOption(e, t.out)
    IN  IF t.err # NilErr
        THEN [cli |-> NilCli, err |-> Wrap(<<"i","n","v","a","l","i","d"," ","f","z","f"," ","p","r","e","v","i","e","w"," ","c","o","m","m","a","n","d",":"," ">>, t.err),
              previewCommand |-> <<>>, resolved |-> <<>>]
        ELSE IF o.err # NilErr
        THEN [cli |-> NilCli, err |-> Wrap(<<"f","a","i","l","e","d"," ","t","o"," ","g","e","t"," ","f","z","f"," ","o","p","t","i","o","n",":"," ">>, o.err),
              previewCommand |-> t.out, resolved |-> <<>>]
        ELSE [cli |-> [isNil |-> FALSE,
                       listOptions |-> gitOptions,
                       fzfOption |-> IF fzfQuery # <<>>
                                     THEN o.fzfOption \o <<" ","-","-","q","u","e","r","y"," ">> \o fzfQuery
                                     ELSE o.fzfOption],
              err |-> NilErr, previewCommand |-> t.out, resolved |-> o.fzfOption]

\* main.go:102: the command line handed to runCommandWithFzf
diffCommandLine(c) ==
    <<"g","i","t"," ","d","i","f","f"," ","-","-","c","o","l","o","r"," ","-","-","n","a","m","e","-","s","t","a","t","u","s"," ">> \o Join(c.listOptions, <<" ">>) \o <<" ","|"," ","f","z","f"," ">> \o c.fzfOption

\* a Run without the special case of exit code 130
diffCliRunNoCancel(c, out, err, wErr) ==
    LET command == diffCommandLine(c)
        w == writeFzfResult(out, 1, wErr)
    IN  IF err # NilErr
        THEN [calls |-> 1, commandLine |-> command, panicked |-> FALSE, writes |-> <<>>,
              errWrites |-> <<>>,
              err |-> Wrap(<<"f","a","i","l","e","d"," ","t","o"," ","r","u","n"," ","t","h","e"," ","c","o","m","m","a","n","d"," ">> \o command \o <<":"," ">>, err)]
        ELSE [calls |-> 1, commandLine |-> command, panicked |-> w.panicked, writes |-> w.writes,
              errWrites |-> <<>>, err |-> w.err]

\* a Run that takes every exit error for a cancellation
diffCliRunAnyExit(c, out, err, wErr) ==
    LET command == diffCommandLine(c)
        w == writeFzfResult(out, 1, wErr)
    IN  IF err # NilErr
        THEN IF err.kind = "ExitError"
             THEN [calls |-> 1, commandLine |-> command, panicked |-> FALSE, writes |-> <<>>,
                   errWrites |-> <<>>, err |-> NilErr]
             ELSE [calls |-> 1, commandLine |-> command, panicked |-> FALSE, writes |-> <<>>,
                   errWrites |-> <<>>,
                   err |-> Wrap(<<"f","a","i","l","e","d"," ","t","o"," ","r","u","n"," ","t","h","e"," ","c","o","m","m","a","n","d"," ">> \o command \o <<":"," ">>, err)]
        ELSE [calls |-> 1, commandLine |-> command, panicked |-> w.panicked, writes |-> w.writes,
              errWrites |-> <<>>, err |-> w.err]

\* diffCli.Run, given what runCommandWithFzf returns (out, err) and what
\* ioOut.Write returns (wErr)
diffCliRun(c, out, err, wErr) ==
    LET command == diffCommandLine(c)
        w == writeFzfResult(out, 1, wErr)
    IN  IF err # NilErr
        THEN IF err.kind = "ExitError" /\ err.code = 130
             THEN [calls |-> 1, commandLine |-> command, panicked |-> FALSE, writes |-> <<>>,
                   errWrites |-> <<>>, err |-> NilErr]
             ELSE [calls |-> 1, commandLine |-> command, panicked |-> FALSE, writes |-> <<>>,
                   errWrites |-> <<>>,
                   err |-> Wrap(<<"f","a","i","l","e","d"," ","t","o"," ","r","u","n"," ","t","h","e"," ","c","o","m","m","a","n","d"," ">> \o command \o <<":"," ">>, err)]
        ELSE [calls |-> 1, commandLine |-> command, panicked |-> w.panicked, writes |-> w.writes,
              errWrites |-> <<>>, err |-> w.err]

(***************************************************************************)
(* The log adapter (internal/command/log.go).                              *)
(***************************************************************************)
\* "git show --color {{.objectRange}} {{.path}}"
logFzfPreviewCommand == <<"g","i","t"," ","s","h","o","w"," ","-","-","c","o","l","o","r"," ","{","{",".","o","b","j","e","c","t","R","a","n","g","e","}","}"," ","{","{",".","p","a","t","h","}","}">>

\* a constructor that returns the error of getFzfOption unwrapped
newLogCliUnwrapped(e, gitOptions, fzfQuery) ==
    LET gitObjectRange == IF Len(gitOptions) > 0 THEN gitOptions[1] ELSE <<>>
        t == commandFromTemplate(<<"p","r","e","v","i","e","w">>, logFzfPreviewCommand,
                 (<<"p","a","t","h">> :> <<"{","{","1","}","}">>) @@ (<<"o","b","j","e","c","t","R","a","n","g","e">> :> gitObjectRange))
        o == getFzfOption(e, t.out)
    IN  IF t.err # NilErr
        THEN [cli |-> NilCli, err |-> Wrap(<<"i","n","v","a","l","i","d"," ","f","z","f"," ","p","r","e","v","i","e","w"," ","c","o","m","m","a","n","d",":"," ">>, t.err),
              previewCommand |-> <<>>, resolved |-> <<>>]
        ELSE IF o.err # NilErr
        THEN [cli |-> NilCli, err |-> o.err,
              previewCommand |-> t.out, resolved |-> <<>>]
        ELSE [cli |-> [isNil |-> FALSE,
                       listOptions |-> gitOptions,
                       fzfOption |-> IF fzfQuery # <<>>
                                     THEN o.fzfOption \o <<" ","-","-","q","u","e","r","y"," ">> \o fzfQuery
                                     ELSE o.fzfOption],
              err |-> NilErr, previewCommand |-> t.out, resolved |-> o.fzfOption]

newLogCli(e, gitOptions, fzfQuery) ==
    LET gitObjectRange == IF Len(gitOptions) > 0 THEN gitOptions[1] ELSE <<>>
        t == commandFromTemplate(<<"p","r","e","v","i","e","w">>, logFzfPreviewCommand,
                 (<<"p","a","t","h">> :> <<"{","{","1","}","}">>) @@ (<<"o","b","j","e","c","t","R","a","n","g","e">> :> gitObjectRange))
        o == getFzfOption(e, t.out)
    IN  IF t.err # NilErr
        THEN [cli |-> NilCli, err |-> Wrap(<<"i","n","v","a","l","i","d"," ","f","z","f"," ","p","r","e","v","i","e","w"," ","c","o","m","m","a","n","d",":"," ">>, t.err),
              previewCommand |-> <<>>, resolved |-> <<>>]
        ELSE IF o.err # NilErr
        THEN [cli |-> NilCli, err |-> Wrap(<<"f","a","i","l","e","d"," ","t","o"," ","g","e","t"," ","f","z","f"," ","o","p","t","i","o","n",":"," ">>, o.err),
              previewCommand |-> t.out, resolved |-> <<>>]
        ELSE [cli |-> [isNil |-> FALSE,
                       listOptions |-> gitOptions,
                       fzfOption |-> IF fzfQuery # <<>>
                                     THEN o.fzfOption \o <<" ","-","-","q","u","e","r","y"," ">> \o fzfQuery
                                     ELSE o.fzfOption],
              err |-> NilErr, previewCommand |-> t.out, resolved |-> o.fzfOption]

\* a command line whose pass-through arguments are joined without a separator
logCommandLineUnseparated(c) ==
    <<"g","i","t"," ","l","o","g"," ","-","-","c","o","l","o","r"," ","-","-","o","n","e","l","i","n","e"," ">> \o Join(c.listOptions, <<>>) \o <<" ","|"," ","f","z","f"," ">> \o c.fzfOption

\* log.go:76: the command line handed to runCommandWithFzf
logCommandLine(c) ==
    <<"g","i","t"," ","l","o","g"," ","-","-","c","o","l","o","r"," ","-","-","o","n","e","l","i","n","e"," ">> \o Join(c.listOptions, <<" ">>) \o <<" ","|"," ","f","z","f"," ">> \o c.fzfOption

logCliRun(c, out, err, wErr) ==
    LET command == logCommandLine(c)
        w == writeFzfResult(out, 0, wErr)
    IN  IF err # NilErr
        THEN IF err.kind = "ExitError" /\ err.code = 130
             THEN [calls |-> 1, commandLine |-> command, panicked |-> FALSE, writes |-> <<>>,
                   errWrites |-> <<>>, err |-> NilErr]
             ELSE [calls |-> 1, commandLine |-> command, panicked |-> FALSE, writes |-> <<>>,
                   errWrites |-> <<>>,
                   err |-> Wrap(<<"f","a","i","l","e","d"," ","t","o"," ","r","u","n"," ","t","h","e"," ","c","o","m","m","a","n","d"," ">> \o command \o <<":"," ">>, err)]
        ELSE [calls |-> 1, commandLine |-> command, panicked |-> w.panicked, writes |-> w.writes,
              errWrites |-> <<>>, err |-> w.err]

(***************************************************************************)
(* The stash adapter (unnamed/part_003).                                   *)
(***************************************************************************)
\* "git stash show --color -p '{{.stash}}'"
stashFzfPreviewCommand == <<"g","i","t"," ","s","t","a","s","h"," ","s","h","o","w"," ","-","-","c","o","l","o","r"," ","-","p"," ","'","{","{",".","s","t","a","s","h","}","}","'">>

newStashCli(e, gitOptions, fzfQuery) ==
    LET t == commandFromTemplate(<<"p","r","e","v","i","e","w">>, stashFzfPreviewCommand,
                 (<<"s","t","a","s","h">> :> <<"{","{","1","}","}">>))
        o == getFzfOption(e, t.out)
    IN  IF t.err # NilErr
        THEN [cli |-> NilCli, err |-> Wrap(<<"i","n","v","a","l","i","d"," ","f","z","f"," ","p","r","e","v","i","e","w"," ","c","o","m","m","a","n","d",":"," ">>, t.err),
              previewCommand |-> <<>>, resolved |-> <<>>]
        ELSE IF o.err # NilErr
        THEN [cli |-> NilCli, err |-> Wrap(<<"f","a","i","l","e","d"," ","t","o"," ","g","e","t"," ","f","z","f"," ","o","p","t","i","o","n",":"," ">>, o.err),
              previewCommand |-> t.out, resolved |-> <<>>]
        ELSE [cli |-> [isNil |-> FALSE,
                       listOptions |-> gitOptions,
                       fzfOption |-> IF fzfQuery # <<>>
                                     THEN o.fzfOption \o <<" ","-","-","q","u","e","r","y"," ">> \o fzfQuery
                                     ELSE o.fzfOption],
              err |-> NilErr, previewCommand |-> t.out, resolved |-> o.fzfOption]

\* part_003:70: the command line handed to runCommandWithFzf
stashCommandLine(c) ==
    <<"g","i","t"," ","s","t","a","s","h"," ","l","i","s","t"," ","-","-","f","o","r","m","a","t","=","'","%","g","d"," ","%","g","s","'"," ">> \o Join(c.listOptions, <<" ">>) \o <<" ","|"," ","f","z","f"," ">> \o c.fzfOption

\* a Run that calls the executor a second time when the first call failed
stashCliRunRetry(c, out, err, wErr) ==
    LET command == stashCommandLine(c)
        w == writeFzfResult(out, 0, wErr)
    IN  IF err # NilErr
        THEN IF err.kind = "ExitError" /\ err.code = 130
             THEN [calls |-> 1, commandLine |-> command, panicked |-> FALSE, writes |-> <<>>,
                   errWrites |-> <<>>, err |-> NilErr]
             ELSE [calls |-> 2, commandLine |-> command, panicked |-> FALSE, writes |-> <<>>,
                   errWrites |-> <<>>,
                   err |-> Wrap(<<"f","a","i","l","e","d"," ","t","o"," ","r","u","n"," ","t","h","e"," ","c","o","m","m","a","n","d"," ">> \o command \o <<":"," ">>, err)]
        ELSE [calls |-> 1, commandLine |-> command, panicked |-> w.panicked, writes |-> w.writes,
              errWrites |-> <<>>, err |-> w.err]

\* stashCli.Run, with calls the number of times it calls runCommandWithFzf
stashCliRun(c, out, err, wErr) ==
    LET command == stashCommandLine(c)
        w == writeFzfResult(out, 0, wErr)
    IN  IF err # NilErr
        THEN IF err.kind = "ExitError" /\ err.code = 130
             THEN [calls |-> 1, commandLine |-> command, panicked |-> FALSE, writes |-> <<>>,
                   errWrites |-> <<>>, err |-> NilErr]
             ELSE [calls |-> 1, commandLine |-> command, panicked |-> FALSE, writes |-> <<>>,
                   errWrites |-> <<>>,
                   err |-> Wrap(<<"f","a","i","l","e","d"," ","t","o"," ","r","u","n"," ","t","h","e"," ","c","o","m","m","a","n","d"," ">> \o command \o <<":"," ">>, err)]
        ELSE [calls |-> 1, commandLine |-> command, panicked |-> w.panicked, writes |-> w.writes,
              errWrites |-> <<>>, err |-> w.err]

(***************************************************************************)
(* Inputs of the option resolver.                                          *)
(***************************************************************************)
\* fragments an option template is put together from
OptionFragments ==
    { <<"$","G","I","T","_","F","Z","F","_","F","Z","F","_","P","R","E","V","I","E","W","_","O","P","T","I","O","N">>, <<"$","G","I","T","_","F","Z","F","_","F","Z","F","_","B","I","N","D","_","O","P","T","I","O","N">>,
      <<"$","A">>, <<"$","B">>, <<"$">>, <<"{">>, <<"}">>, <<" ">> }

\* the values of GIT_FZF_FZF_OPTION: every concatenation of at most MaxParts fragments
OptionTemplates ==
    { Flatten(p) : p \in UNION { [1..n -> OptionFragments] : n \in 0..MaxParts } }

\* the values of GIT_FZF_FZF_BIND_OPTION
BindValues == { <<>>, <<"c","t","r","l","-","k",":","k","i","l","l","-","l","i","n","e">>, <<"c","t","r","l","-","y",":","e","x","e","c","u","t","e","(","e","c","h","o"," ","$","B",")">> }

\* the values of an environment variable named GIT_FZF_FZF_PREVIEW_OPTION
PreviewEnvValues == { <<>>, <<"e","c","h","o">> }

\* preview commands handed to getFzfOption
PreviewCommands == { <<>>, <<"g","i","t"," ","d","i","f","f"," ","{","1","}">>, <<"c","a","t"," ","$","A">> }

MakeEnv(o, b, p) ==
    (envNameFzfOption :> o) @@ (envNameFzfBindOption :> b) @@ (previewOptionName :> p)

NoOpt == [previewCommand |-> <<>>, fzfOption |-> <<>>, err |-> NilErr,
          template |-> <<>>, subs |-> <<>>]

NoBuild == [previewCommand |-> <<>>, resolved |-> <<>>]

NoRender == [command |-> <<>>, data |-> <<>>, out |-> <<>>, err |-> NilErr]

NoExec == [calls |-> 0, commandLine |-> <<>>, out |-> <<>>, err |-> NilErr]

Blank ==
    /\ pc = "idle"
    /\ adapter = "none"
    /\ args = [gitOptions |-> <<>>, fzfQuery |-> <<>>]
    /\ build = NoBuild
    /\ cli = NilCli
    /\ newErr = NilErr
    /\ exec = NoExec
    /\ ioOut = <<>>
    /\ ioErr = <<>>
    /\ ret = NilErr
    /\ opt = NoOpt
    /\ render = NoRender

(***************************************************************************)
(* Inputs of the adapters.                                                 *)
(***************************************************************************)
\* the longest list of pass-through arguments
MaxArgs == 2

\* pass-through arguments; origin/c++ is a branch name with characters that
\* html/template escapes
ArgValues == { <<"o","r","i","g","i","n","/","m","a","s","t","e","r">>, <<"-","-","d","i","f","f","-","f","i","l","t","e","r">>, <<"o","r","i","g","i","n","/","c","+","+">> }

GitOptionLists == UNION { [1..n -> ArgValues] : n \in 0..MaxArgs }

Queries == { <<>>, <<"c","o","n","f","i","g">> }

\* the values of GIT_FZF_FZF_OPTION an invocation of a subcommand runs with
OptionValues ==
    { <<>>, <<"-","-","i","n","l","i","n","e","-","i","n","f","o">>,
      <<"-","-","p","r","e","v","i","e","w"," ","'","$","G","I","T","_","F","Z","F","_","F","Z","F","_","P","R","E","V","I","E","W","_","O","P","T","I","O","N","'"," ","-","-","b","i","n","d"," ","$","G","I","T","_","F","Z","F","_","F","Z","F","_","B","I","N","D","_","O","P","T","I","O","N">>,
      <<"$","U","N","K","N","O","W","N","_","E","N","V","1",","," ","$","U","N","K","N","O","W","N","_","E","N","V","2">> }

\* what runCommandWithFzf returns as its error
ExecErrors ==
    { NilErr,
      ExitError(130, <<"e","x","i","t"," ","s","t","a","t","u","s"," ","1","3","0">>),
      ExitError(1, <<"e","x","i","t"," ","s","t","a","t","u","s"," ","1">>),
      ExitError(-1, <<"<","n","i","l",">">>),
      PlainError(<<"w","a","n","t"," ","e","r","r","o","r">>),
      Wrap(<<"w","a","i","t",":"," ">>, ExitError(130, <<"e","x","i","t"," ","s","t","a","t","u","s"," ","1","3","0">>)) }

\* what ioOut.Write returns as its error
WriteErrors == { NilErr, PlainError(<<"b","r","o","k","e","n"," ","p","i","p","e">>) }

\* what runCommandWithFzf returns as the standard output of the pipeline
Outputs ==
    { <<>>, <<"M","\t","R","E","A","D","M","E",".","m","d","\n","A","\t","L","I","C","E","N","S","E">>, <<"a","b","c"," ","C","o","m","m","i","t"," ","m","e","s","s","a","g","e","1","\n","x","y","z"," ","C","o","m","m","i","t"," ","m","e","s","s","a","g","e","2","\n">>, <<"M">> }

\* fragments a finder output is put together from
OutFragments == { <<"M">>, <<"\t","a","b">>, <<"\n">>, <<" ">> }

\* every concatenation of at most MaxOutParts fragments
FinderOutputs ==
    { Flatten(p) : p \in UNION { [1..n -> OutFragments] : n \in 0..MaxOutParts } }

(***************************************************************************)
(* The operations of one invocation: a constructor, then Run.              *)
(***************************************************************************)
Construct(name, r, gitOptions, fzfQuery) ==
    /\ pc = "idle"
    /\ adapter' = name
    /\ args' = [gitOptions |-> gitOptions, fzfQuery |-> fzfQuery]
    /\ build' = [previewCommand |-> r.previewCommand, resolved |-> r.resolved]
    /\ cli' = r.cli
    /\ newErr' = r.err
    /\ pc' = IF r.err = NilErr THEN "built" ELSE "failed"
    /\ UNCHANGED <<env, exec, ioOut, ioErr, ret, opt, render>>

\* a constructor called with one of the argument lists G and queries Q
NewDiffCli(G, Q) ==
    /\ pc = "idle"
    /\ \E g \in G, q \in Q : Construct("diff", newDiffCli(env, g, q), g, q)

NewLogCli(G, Q) ==
    /\ pc = "idle"
    /\ \E g \in G, q \in Q : Construct("log", newLogCli(env, g, q), g, q)

NewStashCli(G, Q) ==
    /\ pc = "idle"
    /\ \E g \in G, q \in Q : Construct("stash", newStashCli(env, g, q), g, q)

Execute(name, r, out, err) ==
    /\ pc = "built"
    /\ adapter = name
    /\ exec' = [calls |-> exec.calls + r.calls, commandLine |-> r.commandLine, out |-> out, err |-> err]
    /\ ioOut' = ioOut \o r.writes
    /\ ioErr' = ioErr \o r.errWrites
    /\ ret' = r.err
    /\ pc' = IF r.panicked THEN "panicked" ELSE "done"
    /\ UNCHANGED <<env, adapter, args, build, cli, newErr, opt, render>>

\* Run with the executor returning one of the outputs O and errors E, and
\* ioOut.Write one of the errors W
DiffRun(O, E, W) ==
    /\ pc = "built"
    /\ adapter = "diff"
    /\ \E o \in O, e \in E, w \in W : Execute("diff", diffCliRun(cli, o, e, w), o, e)

LogRun(O, E, W) ==
    /\ pc = "built"
    /\ adapter = "log"
    /\ \E o \in O, e \in E, w \in W : Execute("log", logCliRun(cli, o, e, w), o, e)

StashRun(O, E, W) ==
    /\ pc = "built"
    /\ adapter = "stash"
    /\ \E o \in O, e \in E, w \in W : Execute("stash", stashCliRun(cli, o, e, w), o, e)

Init ==
    /\ env \in { MakeEnv(o, b, p) : o \in OptionValues, b \in BindValues, p \in PreviewEnvValues }
    /\ Blank

Next ==
    \/ NewDiffCli(GitOptionLists, Queries)
    \/ NewLogCli(GitOptionLists, Queries)
    \/ NewStashCli(GitOptionLists, Queries)
    \/ DiffRun(Outputs, ExecErrors, WriteErrors)
    \/ LogRun(Outputs, ExecErrors, WriteErrors)
    \/ StashRun(Outputs, ExecErrors, WriteErrors)

Spec == Init /\ [][Next]_vars

(***************************************************************************)
(* Run on its own: one environment, one list of arguments, and every       *)
(* finder output of at most MaxOutParts fragments.                         *)
(***************************************************************************)
InitRun ==
    /\ env = MakeEnv(<<"-","-","i","n","l","i","n","e","-","i","n","f","o">>, <<>>, <<>>)
    /\ Blank

\* the errors of the executor that Run is tried with here
RunErrors == { NilErr, ExitError(130, <<"e","x","i","t"," ","s","t","a","t","u","s"," ","1","3","0">>), ExitError(1, <<"e","x","i","t"," ","s","t","a","t","u","s"," ","1">>) }

NextRun ==
    \/ NewDiffCli({<<<<"o","r","i","g","i","n","/","m","a","s","t","e","r">>>>}, {<<>>})
    \/ NewLogCli({<<<<"o","r","i","g","i","n","/","m","a","s","t","e","r">>>>}, {<<>>})
    \/ NewStashCli({<<>>}, {<<>>})
    \/ DiffRun(FinderOutputs, RunErrors, WriteErrors)
    \/ LogRun(FinderOutputs, RunErrors, WriteErrors)
    \/ StashRun(FinderOutputs, RunErrors, WriteErrors)

SpecRun == InitRun /\ [][NextRun]_vars

(***************************************************************************)
(* The option resolver on its own: the environment is drawn from the       *)
(* bounded sets, and getFzfOption is called with a preview command.        *)
(***************************************************************************)
InitOption ==
    /\ env \in { MakeEnv(o, b, p) : o \in OptionTemplates, b \in BindValues, p \in PreviewEnvValues }
    /\ Blank

\* getFzfOption called with one of the preview commands P
GetFzfOption(P) ==
    /\ pc = "idle"
    /\ \E p \in P :
          /\ pc' = "resolved"
          /\ opt' = [previewCommand |-> p] @@ getFzfOption(env, p)
    /\ UNCHANGED <<env, adapter, args, build, cli, newErr, exec, ioOut, ioErr, ret,
                   render>>

NextOption == GetFzfOption(PreviewCommands)

SpecOption == InitOption /\ [][NextOption]_vars

(***************************************************************************)
(* The subcommands as main runs them: cobra calls RunE of the subcommand   *)
(* with the arguments left after flag parsing.  A command line naming a    *)
(* flag that no command defines is rejected by cobra before RunE; the      *)
(* command lines here name none.                                           *)
(***************************************************************************)
\* the persistent flags of the root command, which every subcommand inherits
rootPersistentFlags == {}

\* the commands the constructors return: the name and the flags they define,
\* each flag a record of name, shorthand and value
NewDiffSubcommand == [use |-> "diff", flags |-> {}]

NewLogSubcommand == [use |-> "log", flags |-> {}]

NewStashSubcommand == [use |-> "stash", flags |-> {}]

\* cmd.Flags() at the time of RunE
Flags(cmd) == cmd.flags \union rootPersistentFlags

\* pflag's FlagSet.GetString
GetString(flags, name) ==
    IF \E f \in flags : f.name = name
    THEN [value |-> (CHOOSE f \in flags : f.name = name).value, err |-> NilErr]
    ELSE [value |-> <<>>, err |-> PlainError(<<"f","l","a","g"," ","a","c","c","e","s","s","e","d"," ","b","u","t"," ","n","o","t"," ","d","e","f","i","n","e","d",":"," ">> \o name)]

newCli(name, e, gitOptions, fzfQuery) ==
    CASE name = "diff" -> newDiffCli(e, gitOptions, fzfQuery)
      [] name = "log" -> newLogCli(e, gitOptions, fzfQuery)
      [] name = "stash" -> newStashCli(e, gitOptions, fzfQuery)

cliRun(name, c, out, err, wErr) ==
    CASE name = "diff" -> diffCliRun(c, out, err, wErr)
      [] name = "log" -> logCliRun(c, out, err, wErr)
      [] name = "stash" -> stashCliRun(c, out, err, wErr)

\* what RunE leaves behind: the query read, the constructor's results, the
\* executor's call and the writes of Run, and the error RunE returns
ranTo(fzfQuery, c, r, o, x) ==
    [fzfQuery |-> fzfQuery,
     build |-> [previewCommand |-> c.previewCommand, resolved |-> c.resolved],
     cli |-> c.cli, newErr |-> c.err,
     exec |-> [calls |-> r.calls, commandLine |-> r.commandLine, out |-> o, err |-> x],
     ioOut |-> r.writes, ioErr |-> r.errWrites, ret |-> r.err, panicked |-> r.panicked]

failedNew(fzfQuery, c) ==
    [fzfQuery |-> fzfQuery,
     build |-> [previewCommand |-> c.previewCommand, resolved |-> c.resolved],
     cli |-> c.cli, newErr |-> c.err,
     exec |-> NoExec, ioOut |-> <<>>, ioErr |-> <<>>, ret |-> c.err, panicked |-> FALSE]

failedFlag(err) ==
    [fzfQuery |-> <<>>, build |-> NoBuild, cli |-> NilCli, newErr |-> NilErr,
     exec |-> NoExec, ioOut |-> <<>>, ioErr |-> <<>>, ret |-> err, panicked |-> FALSE]

\* RunE after the constructor has returned c
runCli(name, fzfQuery, c, o, x, w) ==
    IF c.err # NilErr
    THEN failedNew(fzfQuery, c)
    ELSE ranTo(fzfQuery, c, cliRun(name, c.cli, o, x, w), o, x)

\* RunE after the flag has been read as q
withQuery(name, e, q, g, o, x, w) ==
    IF q.err # NilErr
    THEN failedFlag(q.err)
    ELSE runCli(name, q.value, newCli(name, e, g, q.value), o, x, w)

runE(cmd, e, g, o, x, w) ==
    withQuery(cmd.use, e, GetString(Flags(cmd), <<"q","u","e","r","y">>), g, o, x, w)

Exit(name, g, r) ==
    /\ pc = "idle"
    /\ adapter' = name
    /\ args' = [gitOptions |-> g, fzfQuery |-> r.fzfQuery]
    /\ build' = r.build
    /\ cli' = r.cli
    /\ newErr' = r.newErr
    /\ exec' = r.exec
    /\ ioOut' = r.ioOut
    /\ ioErr' = r.ioErr
    /\ ret' = r.ret
    /\ pc' = IF r.panicked THEN "panicked" ELSE "exited"
    /\ UNCHANGED <<env, opt, render>>

\* RunE of a subcommand with one of the argument lists G, the executor
\* returning one of the outputs O and errors E, and os.Stdout.Write one of W
RunE(cmd, G, O, E, W) ==
    /\ pc = "idle"
    /\ \E g \in G, o \in O, x \in E, w \in W :
          Exit(cmd.use, g, runE(cmd, env, g, o, x, w))

DiffRunE == RunE(NewDiffSubcommand, GitOptionLists, Outputs, ExecErrors, WriteErrors)

LogRunE == RunE(NewLogSubcommand, GitOptionLists, Outputs, ExecErrors, WriteErrors)

StashRunE == RunE(NewStashSubcommand, GitOptionLists, Outputs, ExecErrors, WriteErrors)

NextMain == DiffRunE \/ LogRunE \/ StashRunE

SpecMain == Init /\ [][NextMain]_vars

(***************************************************************************)
(* commandFromTemplate on its own, as TestBuildCommand calls it, with      *)
(* templates made of up to MaxTplParts pieces.  In these templates every   *)
(* action is a field, or is cut short or holds a second "{{", which        *)
(* template.Parse rejects.                                                 *)
(***************************************************************************)
MaxTplParts == 3

TemplateFragments == { <<"{","{",".","a","}","}">>, <<"{","{"," ",".","b"," ","}","}">>, <<"g","i","t"," ">>, <<"{","{",".","a">>, <<"}">> }

Templates ==
    UNION { { Flatten(f) : f \in [1..n -> TemplateFragments] } : n \in 0..MaxTplParts }

\* the data of a call: the nil map and maps with one or two of the keys
TemplateData ==
    { <<>>,
      (<<"a">> :> <<"o","r","i","g","i","n","/","m","a","s","t","e","r">>),
      (<<"a">> :> <<"a","<","b">>),
      (<<"b">> :> <<"'","{","1","}","'">>),
      (<<"a">> :> <<"o","r","i","g","i","n","/","c","+","+">>) @@ (<<"b">> :> <<"{","{","2","}","}">>) }

InitTemplate ==
    /\ env = MakeEnv(<<>>, <<>>, <<>>)
    /\ Blank

\* commandFromTemplate called with one of the templates T and the data D
CommandFromTemplate(T, D) ==
    /\ pc = "idle"
    /\ \E t \in T, d \in D :
          /\ pc' = "rendered"
          /\ render' = [command |-> t, data |-> d]
                           @@ commandFromTemplate(<<"p","r","e","v","i","e","w">>, t, d)
    /\ UNCHANGED <<env, adapter, args, build, cli, newErr, exec, ioOut, ioErr, ret, opt>>

NextTemplate == CommandFromTemplate(Templates, TemplateData)

SpecTemplate == InitTemplate /\ [][NextTemplate]_vars

(***************************************************************************)
(* Properties.                                                             *)
(***************************************************************************)
\* Run has called the executor and has ended, by returning or by panicking
RunEnded == pc \in {"done", "panicked"} /\ exec.calls = 1

\* the executor returned an exit error whose exit code is 130
Cancelled == exec.err.kind = "ExitError" /\ exec.err.code = 130

\* C1: for each adapter, when the executor returns an exit error with exit
\* code 130, Run returns nil and writes nothing to the output writer,
\* whatever standard output the executor returned.
C1_CancelIsSuccess ==
    (RunEnded /\ Cancelled) =>
        /\ pc = "done"
        /\ ret = NilErr
        /\ ioOut = <<>>

C1_Witness ==
    /\ RunEnded
    /\ Cancelled
    /\ exec.out # <<>>
    /\ ret = NilErr

FieldIndex == [diff |-> 1, log |-> 0, stash |-> 0]

\* the fields at index column of the lines of the trimmed output, each
\* followed by a newline
ExtractedFields(out, column) ==
    LET lines == SplitLines(TrimSpace(out))
    IN  Flatten([i \in 1..Len(lines) |-> Fields(lines[i])[column + 1] \o <<"\n">>])

\* C3: when the executor succeeds, Run writes exactly the field at the
\* adapter's index of every line of the trimmed output, in order, joined by
\* newline and followed by one newline.
C3_RunWritesFields ==
    (RunEnded /\ exec.err = NilErr) =>
        /\ pc = "done"
        /\ ioOut = <<ExtractedFields(exec.out, FieldIndex[adapter])>>

\* some line of the trimmed output has fewer than FieldIndex + 1 fields
ShortLine ==
    LET lines == SplitLines(TrimSpace(exec.out))
    IN  \E i \in 1..Len(lines) : Len(Fields(lines[i])) < FieldIndex[adapter] + 1

\* C4: given finder output with a line of fewer than fieldIndex + 1 fields,
\* writeFzfResult returns an error and does not panic.
C4_ShortLineIsError ==
    (RunEnded /\ exec.err = NilErr /\ ShortLine) =>
        /\ pc = "done"
        /\ ret # NilErr

\* the built-in default option string around its two variables
DefaultOptionWith(previewCommand, bindOption) ==
    <<"-","-","m","u","l","t","i"," ","-","-","a","n","s","i"," ","-","-","i","n","l","i","n","e","-","i","n","f","o"," ","-","-","l","a","y","o","u","t"," ","r","e","v","e","r","s","e"," ","-","-","p","r","e","v","i","e","w"," ","'">> \o previewCommand
    \o <<"'"," ","-","-","p","r","e","v","i","e","w","-","w","i","n","d","o","w"," ","d","o","w","n",":","7","0","%"," ","-","-","b","i","n","d"," ">> \o bindOption

\* C5: with GIT_FZF_FZF_OPTION and GIT_FZF_FZF_BIND_OPTION unset or empty and
\* a non-empty preview command, getFzfOption returns the built-in default
\* option string with the preview command and the built-in bind option
\* substituted, and no error.
C5_DefaultOption ==
    ( /\ pc = "resolved"
      /\ Getenv(env, envNameFzfOption) = <<>>
      /\ Getenv(env, envNameFzfBindOption) = <<>>
      /\ opt.previewCommand # <<>> ) =>
        /\ opt.err = NilErr
        /\ opt.fzfOption = DefaultOptionWith(opt.previewCommand,
               <<"c","t","r","l","-","k",":","k","i","l","l","-","l","i","n","e",",","c","t","r","l","-","a","l","t","-","t",":","t","o","g","g","l","e","-","p","r","e","v","i","e","w",",","c","t","r","l","-","a","l","t","-","n",":","p","r","e","v","i","e","w","-","d","o","w","n",",","c","t","r","l","-","a","l","t","-","p",":","p","r","e","v","i","e","w","-","u","p",",","c","t","r","l","-","a","l","t","-","v",":","p","r","e","v","i","e","w","-","p","a","g","e","-","d","o","w","n">>)

C5_Witness ==
    /\ pc = "resolved"
    /\ Getenv(env, envNameFzfOption) = <<>>
    /\ Getenv(env, envNameFzfBindOption) = <<>>
    /\ opt.previewCommand = <<"g","i","t"," ","d","i","f","f"," ","{","1","}">>
    /\ opt.err = NilErr

\* the names of the references of the option string that no candidate
\* resolved, one per reference, in the order of the references
RECURSIVE UnresolvedNames(_)
UnresolvedNames(subs) ==
    IF subs = <<>> THEN <<>>
    ELSE IF Head(subs).value = <<>>
    THEN <<Head(subs).name>> \o UnresolvedNames(Tail(subs))
    ELSE UnresolvedNames(Tail(subs))

\* the names of a list, each once, in the order they are first seen
RECURSIVE FirstSeen(_, _)
FirstSeen(names, seen) ==
    IF names = <<>> THEN <<>>
    ELSE IF Head(names) \in seen THEN FirstSeen(Tail(names), seen)
    ELSE <<Head(names)>> \o FirstSeen(Tail(names), seen \cup {Head(names)})

InvalidPrefix == <<"G","I","T","_","F","Z","F","_","F","Z","F","_","O","P","T","I","O","N"," ","h","a","s"," ","i","n","v","a","l","i","d"," ","e","n","v","i","r","o","n","m","e","n","t"," ","v","a","r","i","a","b","l","e","s",":"," ">>

\* C6 as stated: when the option string references variables without a
\* non-empty candidate, getFzfOption fails with one error that lists the
\* unresolved variable names, comma-joined, in the order they are first seen,
\* and returns the empty option string.
C6_FirstSeenNames ==
    (pc = "resolved" /\ UnresolvedNames(opt.subs) # <<>>) =>
        /\ opt.fzfOption = <<>>
        /\ opt.err.msg = InvalidPrefix \o Join(FirstSeen(UnresolvedNames(opt.subs), {}), <<",">>)

\* C6 as amended: the error lists the name of every unresolved reference,
\* once per reference (a name referenced twice is listed twice), comma-joined,
\* in the order of the references, and the option string returned is empty;
\* the scan does not stop at the first unresolved reference.
C6_EveryUnresolvedReference ==
    (pc = "resolved" /\ UnresolvedNames(opt.subs) # <<>>) =>
        /\ opt.fzfOption = <<>>
        /\ opt.err # NilErr
        /\ opt.err.msg = InvalidPrefix \o Join(UnresolvedNames(opt.subs), <<",">>)

C6_Witness ==
    /\ pc = "resolved"
    /\ Len(UnresolvedNames(opt.subs)) = 3
    /\ UnresolvedNames(opt.subs)[1] = UnresolvedNames(opt.subs)[3]
    /\ UnresolvedNames(opt.subs)[1] # UnresolvedNames(opt.subs)[2]
    /\ opt.err # NilErr

\* C7: two environments that differ only in the value of a variable named
\* GIT_FZF_FZF_PREVIEW_OPTION give the same result of getFzfOption, and every
\* reference to $GIT_FZF_FZF_PREVIEW_OPTION is replaced by the preview command
\* the caller supplied.
C7_PreviewNotOverridable ==
    pc = "resolved" =>
        /\ \A v \in PreviewEnvValues :
              LET r == getFzfOption([env EXCEPT ![previewOptionName] = v], opt.previewCommand)
              IN  r.fzfOption = opt.fzfOption /\ r.err = opt.err
        /\ \A k \in 1..Len(opt.subs) :
              opt.subs[k].name = previewOptionName => opt.subs[k].value = opt.previewCommand

C7_Witness ==
    /\ pc = "resolved"
    /\ Getenv(env, previewOptionName) # <<>>
    /\ opt.previewCommand # <<>>
    /\ opt.err = NilErr
    /\ \E k \in 1..Len(opt.subs) : opt.subs[k].name = previewOptionName

\* C8: every reference to $GIT_FZF_FZF_BIND_OPTION is replaced by the value of
\* the environment variable when it is non-empty and by the built-in bind
\* option otherwise; the option template is the value of GIT_FZF_FZF_OPTION
\* when it is non-empty and the built-in default otherwise.
C8_FirstCandidateWins ==
    pc = "resolved" =>
        /\ \A k \in 1..Len(opt.subs) :
              opt.subs[k].name = envNameFzfBindOption =>
                  opt.subs[k].value = IF Getenv(env, envNameFzfBindOption) # <<>>
                                      THEN Getenv(env, envNameFzfBindOption)
                                      ELSE defaultFzfBindOption
        /\ opt.template = IF Getenv(env, envNameFzfOption) # <<>>
                          THEN Getenv(env, envNameFzfOption)
                          ELSE defaultFzfOption

C8_Witness ==
    /\ pc = "resolved"
    /\ Getenv(env, envNameFzfBindOption) # <<>>
    /\ Getenv(env, envNameFzfOption) # <<>>
    /\ opt.err = NilErr
    /\ \E k \in 1..Len(opt.subs) :
          /\ opt.subs[k].name = envNameFzfBindOption
          /\ opt.subs[k].value = Getenv(env, envNameFzfBindOption)

\* C9: for each constructor, the fzfOption of the cli is the option string
\* getFzfOption resolved, followed by " --query " and the query unmodified
\* when the query is non-empty, and by nothing when it is empty.
C9_QueryAppended ==
    pc \in {"built", "done", "panicked"} =>
        /\ build.resolved = getFzfOption(env, build.previewCommand).fzfOption
        /\ cli.fzfOption = IF args.fzfQuery # <<>>
                           THEN build.resolved \o <<" ","-","-","q","u","e","r","y"," ">> \o args.fzfQuery
                           ELSE build.resolved

C9_Witness ==
    /\ pc = "built"
    /\ args.fzfQuery # <<>>
    /\ HasSuffix(cli.fzfOption, <<" ","-","-","q","u","e","r","y"," ","c","o","n","f","i","g">>)

\* the listing command of each adapter
ListingCommand ==
    [diff |-> <<"g","i","t"," ","d","i","f","f"," ","-","-","c","o","l","o","r"," ","-","-","n","a","m","e","-","s","t","a","t","u","s">>,
     log |-> <<"g","i","t"," ","l","o","g"," ","-","-","c","o","l","o","r"," ","-","-","o","n","e","l","i","n","e">>,
     stash |-> <<"g","i","t"," ","s","t","a","s","h"," ","l","i","s","t"," ","-","-","f","o","r","m","a","t","=","'","%","g","d"," ","%","g","s","'">>]

\* C10: the command line handed to the executor is the listing command of
\* the adapter, a space, the pass-through arguments joined by single spaces
\* in their order, " | fzf " and the fzfOption of the cli.
C10_CommandLine ==
    exec.calls = 1 =>
        exec.commandLine = ListingCommand[adapter] \o <<" ">> \o Join(args.gitOptions, <<" ">>)
                           \o <<" ","|"," ","f","z","f"," ">> \o cli.fzfOption

C10_Witness ==
    /\ exec.calls = 1
    /\ Len(args.gitOptions) = 2
    /\ args.gitOptions[1] # args.gitOptions[2]
    /\ adapter = "stash"

\* the first pass-through argument, or the empty string without arguments
ObjectRange == IF Len(args.gitOptions) > 0 THEN args.gitOptions[1] ELSE <<>>

\* the preview command of each adapter up to the object range
PreviewHead == [diff |-> <<"g","i","t"," ","d","i","f","f"," ","-","-","c","o","l","o","r"," ">>, log |-> <<"g","i","t"," ","s","h","o","w"," ","-","-","c","o","l","o","r"," ">>]

\* C11: for newDiffCli and newLogCli, the object range in the preview command
\* is the first pass-through argument character for character, and the empty
\* string without arguments; later arguments have no influence.
C11_ObjectRangeVerbatim ==
    (pc \in {"built", "done", "panicked"} /\ adapter \in {"diff", "log"}) =>
        HasPrefix(build.previewCommand, PreviewHead[adapter] \o ObjectRange \o <<" ">>)

\* C14: newDiffCli embeds the preview command "git diff --color <objectRange>
\* {2}", the path being the single-brace field placeholder {2} of the finder.
C14_DiffPreviewPath ==
    (pc \in {"built", "done", "panicked"} /\ adapter = "diff") =>
        /\ HasPrefix(build.previewCommand, <<"g","i","t"," ","d","i","f","f"," ","-","-","c","o","l","o","r"," ">>)
        /\ HasSuffix(build.previewCommand, <<" ","{","2","}">>)
        /\ ~HasSuffix(build.previewCommand, <<"{","{","2","}","}">>)

\* what each constructor returns as its error for the arguments of this run
ErrorOf(name) ==
    CASE name = "diff" -> newDiffCli(env, args.gitOptions, args.fzfQuery).err
      [] name = "log" -> newLogCli(env, args.gitOptions, args.fzfQuery).err
      [] name = "stash" -> newStashCli(env, args.gitOptions, args.fzfQuery).err

\* the error is one of a failed stage, wrapping the failure of that stage
WrapsStage ==
    /\ newErr.cause # <<>>
    /\ \/ newErr.msg = <<"i","n","v","a","l","i","d"," ","f","z","f"," ","p","r","e","v","i","e","w"," ","c","o","m","m","a","n","d",":"," ">> \o newErr.cause[1].msg
       \/ /\ newErr.msg = <<"f","a","i","l","e","d"," ","t","o"," ","g","e","t"," ","f","z","f"," ","o","p","t","i","o","n",":"," ">> \o newErr.cause[1].msg
          /\ newErr.cause[1] = getFzfOption(env, build.previewCommand).err

\* C15 as stated: a failed constructor returns nil and an error that wraps the
\* underlying failure and identifies the stage and the adapter that failed,
\* so that no other adapter returns the same error.
C15_AdapterAndStage ==
    pc = "failed" =>
        /\ cli.isNil
        /\ WrapsStage
        /\ \A other \in {"diff", "log", "stash"} \ {adapter} : ErrorOf(other) # newErr

\* C15 as amended: a failed constructor returns nil and an error that wraps
\* the underlying failure behind a prefix naming the stage that failed
\* ("invalid fzf preview command: " or "failed to get fzf option: "); the
\* prefix is the same for the three adapters.
C15_StageOnly ==
    pc = "failed" =>
        /\ cli.isNil
        /\ newErr # NilErr
        /\ WrapsStage
        /\ ErrorsIs(newErr, newErr.cause[1])

C15_Witness ==
    /\ pc = "failed"
    /\ adapter = "log"
    /\ newErr.msg = <<"f","a","i","l","e","d"," ","t","o"," ","g","e","t"," ","f","z","f"," ","o","p","t","i","o","n",":"," ","G","I","T","_","F","Z","F","_","F","Z","F","_","O","P","T","I","O","N"," ","h","a","s"," ","i","n","v","a","l","i","d"," ","e","n","v","i","r","o","n","m","e","n","t"," ","v","a","r","i","a","b","l","e","s",":"," ","U","N","K","N","O","W","N","_","E","N","V","1",",","U","N","K","N","O","W","N","_","E","N","V","2">>

\* s holds p as a run of consecutive characters
Contains(s, p) == \E k \in 0..(Len(s) - Len(p)) : SubSeq(s, k + 1, k + Len(p)) = p

\* the placeholder names the templates may hold
PlaceholderNames == { <<"a">>, <<"b">>, <<"a","g","i","t">> }

\* the command holds a placeholder of this name
References(command, n) ==
    \/ Contains(command, <<"{","{",".">> \o n \o <<"}","}">>)
    \/ Contains(command, <<"{","{"," ",".">> \o n \o <<" ","}","}">>)

\* C12: a template that references a placeholder absent from the data, the nil
\* map included, makes commandFromTemplate return an error and the empty
\* string: nothing partly substituted, nothing rendered blank.
C12_MissingKeyIsError ==
    (/\ pc = "rendered"
     /\ \E n \in PlaceholderNames :
           References(render.command, n) /\ n \notin DOMAIN render.data) =>
        /\ render.err # NilErr
        /\ render.out = <<>>

C12_Witness ==
    /\ pc = "rendered"
    /\ render.command = <<"g","i","t"," ","{","{",".","a","}","}","{","{"," ",".","b"," ","}","}">>
    /\ render.data = (<<"a">> :> <<"o","r","i","g","i","n","/","m","a","s","t","e","r">>)
    /\ HasPrefix(render.err.msg, <<"f","a","i","l","e","d"," ","t","o"," ","s","e","t"," ","d","a","t","a"," ","o","n"," ","t","h","e"," ","t","e","m","p","l","a","t","e"," ","o","f"," ","c","o","m","m","a","n","d",":"," ">>)
    /\ render.out = <<>>

\* the text of the nodes with every field replaced by its value as it is
RECURSIVE LiteralText(_, _)
LiteralText(nodes, data) ==
    IF nodes = <<>> THEN <<>>
    ELSE (IF Head(nodes).kind = "text" THEN Head(nodes).val ELSE data[Head(nodes).val])
             \o LiteralText(Tail(nodes), data)

\* C13: for a well-formed template whose placeholders all have an entry,
\* commandFromTemplate succeeds and returns the text with each placeholder
\* replaced by its value, the characters of the value unchanged.
C13_LiteralSubstitution ==
    LET tmpl == parseNodes(render.command, 1, <<>>)
    IN  (/\ pc = "rendered"
         /\ tmpl.ok
         /\ \A k \in 1..Len(tmpl.nodes) :
               tmpl.nodes[k].kind = "field" => tmpl.nodes[k].val \in DOMAIN render.data) =>
            /\ render.err = NilErr
            /\ render.out = LiteralText(tmpl.nodes, render.data)

\* C16: the diff, log and stash subcommands define the string flag query, so
\* RunE reads it without error and hands its value, empty by default, to the
\* constructor; no invocation fails because the flag is undefined.
C16_QueryFlagDefined ==
    pc \in {"exited", "panicked"} =>
        /\ ~HasPrefix(ret.msg, <<"f","l","a","g"," ","a","c","c","e","s","s","e","d"," ","b","u","t"," ","n","o","t"," ","d","e","f","i","n","e","d">>)
        /\ build.previewCommand # <<>>

\* the three ways a Run ends: the executor succeeded and the extractor took
\* over; the finder was cancelled; the executor failed otherwise
OutcomeSelected == exec.err = NilErr

OutcomeCancelled == Cancelled /\ ret = NilErr /\ ioOut = <<>>

OutcomeFailed ==
    /\ exec.err # NilErr
    /\ ~Cancelled
    /\ ret # NilErr
    /\ ErrorsIs(ret, exec.err)
    /\ ioOut = <<>>

\* C17: each Run calls the executor exactly once and ends in exactly one of the
\* three outcomes; the output writer is written at most once and only after
\* the executor returned without error; after a cancellation or any other
\* executor error nothing is ever written, and the executor is not called
\* again.
C17_OneCallOneOutcome ==
    /\ [](exec.calls <= 1 /\ Len(ioOut) <= 1)
    /\ [](pc \in {"done", "panicked"} =>
            /\ exec.calls = 1
            /\ (OutcomeSelected /\ ~OutcomeCancelled /\ ~OutcomeFailed)
                 \/ (~OutcomeSelected /\ OutcomeCancelled /\ ~OutcomeFailed)
                 \/ (~OutcomeSelected /\ ~OutcomeCancelled /\ OutcomeFailed))
    /\ [](ioOut # <<>> => exec.calls = 1 /\ exec.err = NilErr)
    /\ [][exec.calls >= 1 => UNCHANGED <<exec, ioOut>>]_vars

C17_Witness ==
    /\ pc = "done"
    /\ adapter = "stash"
    /\ exec.calls = 1
    /\ exec.err = NilErr
    /\ Len(ioOut) = 1

\* a line with at least one character that is not white space
IsNonBlank(line) == Fields(line) # <<>>

\* the lines of the trimmed output that are not blank
NonBlankLines(out) == SelectSeq(SplitLines(TrimSpace(out)), IsNonBlank)

\* C18: writeFzfResult processes the non-blank lines only: a blank line, and
\* an output that is empty after trimming, adds no identifier and causes no
\* failure, so the identifiers written are those of the non-blank lines, one
\* for each.
C18_BlankLinesSkipped ==
    LET lines == NonBlankLines(exec.out)
        column == FieldIndex[adapter]
    IN  (/\ RunEnded
         /\ exec.err = NilErr
         /\ \A i \in 1..Len(lines) : Len(Fields(lines[i])) > column) =>
            /\ pc = "done"
            /\ Len(ioOut) = 1
            /\ Fields(ioOut[1]) = [i \in 1..Len(lines) |-> Fields(lines[i])[column + 1]]

\* the value substituted for GIT_FZF_FZF_BIND_OPTION
BindOptionUsed ==
    IF Getenv(env, envNameFzfBindOption) # <<>>
    THEN Getenv(env, envNameFzfBindOption)
    ELSE defaultFzfBindOption

\* C19: getFzfOption substitutes in one pass: the text put in place of a
\* variable is not scanned again, so a $NAME inside the preview command or
\* the bind value stays as it is in the result and is not reported as
\* unresolved.
C19_SinglePass ==
    pc = "resolved" =>
        /\ \A k \in 1..Len(opt.subs) :
              \/ Contains(opt.template, <<"$">> \o opt.subs[k].name)
              \/ Contains(opt.template, <<"$","{">> \o opt.subs[k].name \o <<"}">>)
        /\ opt.err # NilErr =>
              opt.err.msg = InvalidPrefix \o Join(UnresolvedNames(opt.subs), <<",">>)
        /\ opt.err = NilErr =>
              \A k \in 1..Len(opt.subs) :
                 /\ opt.subs[k].name = previewOptionName =>
                       Contains(opt.fzfOption, opt.previewCommand)
                 /\ opt.subs[k].name = envNameFzfBindOption =>
                       Contains(opt.fzfOption, BindOptionUsed)

C19_Witness ==
    /\ pc = "resolved"
    /\ opt.previewCommand = <<"c","a","t"," ","$","A">>
    /\ Getenv(env, envNameFzfBindOption) = <<"c","t","r","l","-","y",":","e","x","e","c","u","t","e","(","e","c","h","o"," ","$","B",")">>
    /\ opt.template = <<"$","G","I","T","_","F","Z","F","_","F","Z","F","_","B","I","N","D","_","O","P","T","I","O","N"," ","$","G","I","T","_","F","Z","F","_","F","Z","F","_","P","R","E","V","I","E","W","_","O","P","T","I","O","N">>
    /\ opt.err = NilErr
    /\ opt.fzfOption = <<"c","t","r","l","-","y",":","e","x","e","c","u","t","e","(","e","c","h","o"," ","$","B",")"," ","c","a","t"," ","$","A">>

\* position k of s starts a variable reference: a $ followed by a name, by a
\* special variable, or by a name in braces
IsReferenceAt(s, k) ==
    /\ s[k] = "$"
    /\ k < Len(s)
    /\ \/ isShellSpecialVar(s[k + 1])
       \/ isAlphaNum(s[k + 1])
       \/ /\ s[k + 1] = "{"
          /\ k + 2 <= Len(s)
          /\ s[k + 2] # "}"
          /\ \E j \in (k + 3)..Len(s) : s[j] = "}"

HasVariableReference(s) == \E k \in 1..Len(s) : IsReferenceAt(s, k)

\* C20 as stated: when GIT_FZF_FZF_OPTION is non-empty and has no variable
\* reference, getFzfOption returns it unchanged and without error, whatever
\* the preview command and GIT_FZF_FZF_BIND_OPTION are.
C20_NoReferenceUnchanged ==
    (/\ pc = "resolved"
     /\ Getenv(env, envNameFzfOption) # <<>>
     /\ ~HasVariableReference(Getenv(env, envNameFzfOption))) =>
        /\ opt.err = NilErr
        /\ opt.fzfOption = Getenv(env, envNameFzfOption)

\* C20 as amended: when GIT_FZF_FZF_OPTION is non-empty and has neither a
\* variable reference nor a "${" (which os.Expand drops as bad syntax, with
\* the closing brace of "${}"), getFzfOption returns it unchanged and without
\* error, whatever the preview command and GIT_FZF_FZF_BIND_OPTION are.
C20_NoDollarBraceUnchanged ==
    (/\ pc = "resolved"
     /\ Getenv(env, envNameFzfOption) # <<>>
     /\ ~HasVariableReference(Getenv(env, envNameFzfOption))
     /\ ~Contains(Getenv(env, envNameFzfOption), <<"$","{">>)) =>
        /\ opt.err = NilErr
        /\ opt.fzfOption = Getenv(env, envNameFzfOption)

C20_Witness ==
    /\ pc = "resolved"
    /\ Getenv(env, envNameFzfOption) = <<"$"," ","$">>
    /\ Getenv(env, envNameFzfBindOption) = <<"c","t","r","l","-","k",":","k","i","l","l","-","l","i","n","e">>
    /\ opt.previewCommand = <<"c","a","t"," ","$","A">>
    /\ opt.err = NilErr
    /\ opt.fzfOption = <<"$"," ","$">>

====
